---------------------------- MODULE Spec2Model ----------------------------
(***************************************************************************)
(* SoundCompass/MainVisual.py: a pygame render loop whose overlays are     *)
(* switched by "<param> <value>" messages that a background thread reads   *)
(* from a TCP connection (Pure Data -> Python).                            *)
(*                                                                         *)
(* Byte strings are sequences of one-character strings, so that recv       *)
(* segmentation, str.replace and str.split act on characters.              *)
(***************************************************************************)
EXTENDS Integers, Sequences, FiniteSets, TLC

VARIABLES
    param_images,   \* line 23: param -> [active, images]
    srv_pc,         \* pd_server_thread: "accept" (line 56), "recv" (line 60), "dead"
    connection,     \* the accepted socket: "none", "open", "closed" (line 74)
    data,           \* line 60: the bytes the last recv returned
    client,         \* the peer: "absent", "queued" (in the listen backlog), "connected"
    wire,           \* bytes the peer has sent and recv has not yet returned
    peer_closed,    \* the peer has shut its side down (recv returns b"" once wire is empty)
    sent,           \* log of the records the peer has sent so far
    waiting,        \* a second peer has connected and waits in the listen queue (line 52)
    dragging,            \* line 120
    old_angle,           \* line 121: pointer angle of the last event, degrees
    handle_angle,        \* line 110, degrees
    gauge_angle,         \* line 108, degrees
    lines_scale_factor,  \* line 116, in hundredths (1.0 is 100)
    arc_scale_current,   \* line 104, in millionths (1.0 is 1000000)
    arc_scale_target,    \* line 105, in millionths
    gauge_scale_current, \* line 106, in millionths
    gauge_scale_target,  \* line 107, in millionths
    fullscreen,          \* the display mode set_mode left the window in (line 11)
    ms_since_down,       \* time since the last primary MOUSEBUTTONDOWN, -1 before the first
    main_pc,             \* main loop: "events" (line 142) or "overlays" (lines 209-222)
    overlay_idx,         \* position of the overlay loop of line 209 in ParamOrder
    drawn,               \* the files blitted since the last screen.fill, in order
    frame_tables,        \* the active sets the table has had since the frame's screen.fill
    moves_left,          \* MOUSEMOTION events while dragging still to be explored
    delta_sum,           \* history: sum of the delta_angle values applied so far
    frames_left          \* frames still to be explored

ingest_vars == <<param_images, srv_pc, connection, data, client, wire, peer_closed, sent,
                 waiting>>

pointer_vars == <<dragging, old_angle, handle_angle, gauge_angle, lines_scale_factor,
                  arc_scale_target, gauge_scale_target, fullscreen, moves_left,
                  delta_sum>>

render_vars == <<arc_scale_current, gauge_scale_current, main_pc, overlay_idx, drawn,
                 frames_left>>

main_vars == <<pointer_vars, render_vars, ms_since_down>>

vars == <<ingest_vars, main_vars, frame_tables>>

(***************************************************************************)
(* Bounds of the exploration.                                              *)
(***************************************************************************)
MaxRecords == 2      \* records the peer sends in one run
MaxMoves == 3        \* MOUSEMOTION events handled while dragging in one run
MaxFrames == 2       \* frames rendered in one run
NearMax == 2         \* a long drag has left lines_scale_factor this far below MAX_SCALE
PointerRadius == 100 \* distance in pixels of the pointer positions from the centre
StallMs == 300       \* duration of a frame that overruns its 1/60 s
WarmFrames == 3      \* frames with button events before and after the quiet frames
EaseFrames == 30     \* consecutive frames during which no button event arrives

(***************************************************************************)
(* Program constants.                                                      *)
(***************************************************************************)
RECV_SIZE == 128     \* line 60: connection.recv(128)

Min(a, b) == IF a <= b THEN a ELSE b

(***************************************************************************)
(* Parameter names and messages, as character sequences.                   *)
(***************************************************************************)
notes    == <<"n", "o", "t", "e", "s">>
beat     == <<"b", "e", "a", "t">>
drum     == <<"d", "r", "u", "m">>
drumBeat == <<"d", "r", "u", "m", "B", "e", "a", "t">>
ambient  == <<"a", "m", "b", "i", "e", "n", "t">>
rythmn   == <<"r", "y", "t", "h", "m", "n">>
bogus    == <<"b", "o", "g", "u", "s">>

\* lines 41-46: the registrations, in the order the dict keeps them
ParamOrder == <<notes, beat, drum, drumBeat, ambient, rythmn>>

\* lines 41-46: the image files of each param
ParamFiles(p) ==
    CASE p = notes    -> <<"VisualDot.png", "VisualLine.png">>
      [] p = beat     -> <<"SoundDot.png", "SoundLine.png">>
      [] p = drum     -> <<"SmellDot.png", "SmellLine.png">>
      [] p = drumBeat -> <<"MindDot.png", "MindLine.png">>
      [] p = ambient  -> <<"TasteDot.png", "TasteLine.png">>
      [] p = rythmn   -> <<"TouchDot.png", "TouchLine.png", "GeneralLine.png">>

\* lines 32-38: add_param_images stores the param inactive with its images
add_param_images(table, p) ==
    [k \in (DOMAIN table) \cup {p} |->
        IF k = p THEN [active |-> FALSE, images |-> ParamFiles(p)] ELSE table[k]]

RECURSIVE RegisterAll(_, _)
RegisterAll(table, i) ==
    IF i > Len(ParamOrder) THEN table
    ELSE RegisterAll(add_param_images(table, ParamOrder[i]), i + 1)

\* line 23 and lines 41-46: the table once the module body has run
InitialParamImages == RegisterAll(<<>>, 1)

\* a byte that is not valid UTF-8 (0xFF)
BadByte == "<FF>"

\* line 63: bytes.decode("utf-8") raises UnicodeDecodeError on an invalid byte
DecodeFails(bytes) == \E i \in 1..Len(bytes) : bytes[i] = BadByte

IsControl(c) == c \in {"\n", "\r", "\t", ";"}
IsKept(c) == ~IsControl(c)

\* line 63: .replace('\n','').replace('\r','').replace('\t','').replace(';','')
StripControl(s) == SelectSeq(s, IsKept)

\* str.split() separators that can be left after StripControl
IsSpace(c) == c \in {" ", "\f"}

\* line 65: msg.split() -- maximal runs of non-whitespace characters
RECURSIVE SplitFrom(_, _, _)
SplitFrom(s, cur, acc) ==
    IF s = <<>> THEN (IF cur = <<>> THEN acc ELSE Append(acc, cur))
    ELSE IF IsSpace(Head(s))
         THEN SplitFrom(Tail(s), <<>>, IF cur = <<>> THEN acc ELSE Append(acc, cur))
         ELSE SplitFrom(Tail(s), Append(cur, Head(s)), acc)

Split(s) == SplitFrom(s, <<>>, <<>>)

\* lines 63-65: the tokens of one received chunk
Parts(bytes) == Split(StripControl(bytes))

\* mutant of IsActive: every value but "0" counts as active
IsActive_NotZero(value_str) == value_str # <<"0">>

\* line 68: is_active = (value_str == "1")
IsActive(value_str) == value_str = <<"1">>

\* mutant of HandleMessage: the entry is stored without the membership test of line 69
HandleMessage_NoCheck(table, bytes) ==
    LET parts == Parts(bytes) IN
    IF Len(parts) = 2
    THEN [k \in (DOMAIN table) \cup {parts[1]} |->
             IF k = parts[1]
             THEN [active |-> IsActive(parts[2]),
                   images |-> IF k \in DOMAIN table THEN table[k].images ELSE <<>>]
             ELSE table[k]]
    ELSE table

\* mutant of HandleMessage: a "0" message deletes the entry instead of clearing its flag
HandleMessage_DeleteInactive(table, bytes) ==
    LET parts == Parts(bytes) IN
    IF Len(parts) = 2 /\ parts[1] \in DOMAIN table
    THEN IF IsActive(parts[2])
         THEN [table EXCEPT ![parts[1]].active = TRUE]
         ELSE [k \in (DOMAIN table) \ {parts[1]} |-> table[k]]
    ELSE table

\* lines 66-72: the table after one received (decodable) chunk
HandleMessage(table, bytes) ==
    LET parts == Parts(bytes) IN
    IF Len(parts) = 2
    THEN LET param_name == parts[1]
             value_str  == parts[2]
         IN IF param_name \in DOMAIN table
            THEN [table EXCEPT ![param_name].active = IsActive(value_str)]
            ELSE table
    ELSE table

\* the params whose overlay is switched on
ActiveSet(table) == {p \in DOMAIN table : table[p].active}

(***************************************************************************)
(* The peer (Pure Data's netsend) and the TCP connection.                  *)
(***************************************************************************)
Records ==
    { notes \o <<" ", "1", "\n">>,
      notes \o <<" ", "0", "\n">>,
      beat  \o <<" ", "1", ";", "\n">>,
      beat  \o <<" ", "2", "\n">>,
      bogus \o <<" ", "1", "\n">>,
      notes \o <<"\n">>,
      <<BadByte>> }

PeerConnect ==
    /\ client = "absent"
    /\ client' = "queued"
    /\ wire' = <<>>
    /\ peer_closed' = FALSE
    /\ UNCHANGED <<param_images, srv_pc, connection, data, sent, waiting, main_vars,
                   frame_tables>>

\* a second peer connects while the first is being served: listen(1) queues it
PeerConnectBehind ==
    /\ client = "connected"
    /\ ~waiting
    /\ waiting' = TRUE
    /\ UNCHANGED <<param_images, srv_pc, connection, data, client, wire, peer_closed, sent,
                   main_vars, frame_tables>>

\* the peer at the head of the listen queue once the served connection is gone
NextClient == IF waiting THEN "queued" ELSE "absent"

PeerSend(r) ==
    /\ client = "connected"
    /\ ~peer_closed
    /\ Len(sent) < MaxRecords
    /\ wire' = wire \o r
    /\ sent' = Append(sent, r)
    /\ UNCHANGED <<param_images, srv_pc, connection, data, client, peer_closed, waiting,
                   main_vars, frame_tables>>

PeerClose ==
    /\ client = "connected"
    /\ ~peer_closed
    /\ peer_closed' = TRUE
    /\ UNCHANGED <<param_images, srv_pc, connection, data, client, wire, sent, waiting,
                   main_vars, frame_tables>>

(***************************************************************************)
(* pd_server_thread, lines 48-74.                                          *)
(***************************************************************************)
\* a server that hands every arriving connection to a worker of its own:
\* the waiting peer is accepted while the first one is still being served
Accept_Concurrent ==
    /\ srv_pc \in {"accept", "recv"}
    /\ client = "queued" \/ waiting
    /\ client' = "connected"
    /\ waiting' = FALSE
    /\ connection' = "open"
    /\ srv_pc' = "recv"
    /\ UNCHANGED <<param_images, data, wire, peer_closed, sent, main_vars, frame_tables>>

\* line 56: sock.accept() returns the queued connection
Accept ==
    /\ srv_pc = "accept"
    /\ client = "queued"
    /\ client' = "connected"
    /\ connection' = "open"
    /\ srv_pc' = "recv"
    /\ UNCHANGED <<param_images, data, wire, peer_closed, sent, waiting, main_vars,
                   frame_tables>>

\* lines 60-72: recv returns the first n bytes in flight; the chunk is decoded,
\* stripped, split and applied.  A decode error leaves through the finally
\* clause (line 74) and out of the thread's function: there is no except.
RecvData(n) ==
    /\ srv_pc = "recv"
    /\ n \in 1..Min(RECV_SIZE, Len(wire))
    /\ data' = SubSeq(wire, 1, n)
    /\ wire' = SubSeq(wire, n + 1, Len(wire))
    /\ IF DecodeFails(data')
       THEN /\ connection' = "closed"
            /\ srv_pc' = "dead"
            /\ client' = NextClient
            /\ waiting' = FALSE
            /\ UNCHANGED param_images
       ELSE /\ param_images' = HandleMessage(param_images, data')
            /\ UNCHANGED <<srv_pc, connection, client, waiting>>
    /\ frame_tables' = IF main_pc = "overlays"
                       THEN frame_tables \cup {ActiveSet(param_images')}
                       ELSE frame_tables
    /\ UNCHANGED <<peer_closed, sent, main_vars>>

\* mutant of RecvEof: the empty read does not break out of the recv loop
RecvEof_NoBreak ==
    /\ srv_pc = "recv"
    /\ wire = <<>>
    /\ peer_closed
    /\ data' = <<>>
    /\ UNCHANGED <<param_images, srv_pc, connection, client, wire, peer_closed, sent,
                   waiting, main_vars, frame_tables>>

\* lines 60-62, 74, 55-56: recv returns b"", break, close, back to accept
RecvEof ==
    /\ srv_pc = "recv"
    /\ wire = <<>>
    /\ peer_closed
    /\ data' = <<>>
    /\ connection' = "closed"
    /\ client' = NextClient
    /\ waiting' = FALSE
    /\ peer_closed' = (peer_closed /\ ~waiting)
    /\ srv_pc' = "accept"
    /\ UNCHANGED <<param_images, wire, sent, main_vars, frame_tables>>

\* line 60: recv raises (connection reset by the peer); finally closes (line 74)
\* and the exception leaves the thread's function
RecvError ==
    /\ srv_pc = "recv"
    /\ ~peer_closed
    /\ connection' = "closed"
    /\ client' = NextClient
    /\ waiting' = FALSE
    /\ wire' = <<>>
    /\ srv_pc' = "dead"
    /\ UNCHANGED <<param_images, data, peer_closed, sent, main_vars, frame_tables>>

(***************************************************************************)
(* The main loop, lines 101-263.  Angles are whole degrees; the pointer    *)
(* positions explored lie on the eight directions whose atan2 is an exact  *)
(* multiple of 45 degrees, so every angle the loop computes is exact.      *)
(***************************************************************************)
WIDTH == 1024                  \* line 10
HEIGHT == 768                  \* line 10
MAX_SCALE == 500               \* line 117: 5.0, in hundredths
gauge_rot_speed_factor == 2    \* line 109: 2.0
FPS == 60                      \* line 263: clock.tick(60)

SNAP_ANGLES == <<90, 180>>     \* line 113

Hundredths(tenths) == tenths * 10
Millionths(tenths) == tenths * 100000

Abs(x) == IF x < 0 THEN -x ELSE x

\* integer quotient rounded toward zero
Quot(a, b) == IF a >= 0 THEN a \div b ELSE -((-a) \div b)

\* math.degrees(math.atan2(dy, dx)) on the eight principal directions and the centre
Atan2Deg(dy, dx) ==
    CASE dx > 0 /\ dy = 0   -> 0
      [] dx > 0 /\ dy = dx  -> 45
      [] dx = 0 /\ dy > 0   -> 90
      [] dx < 0 /\ dy = -dx -> 135
      [] dx < 0 /\ dy = 0   -> 180
      [] dx < 0 /\ dy = dx  -> -135
      [] dx = 0 /\ dy < 0   -> -90
      [] dx > 0 /\ dy = -dx -> -45
      [] dx = 0 /\ dy = 0   -> 0

\* lines 123-127
get_mouse_angle(mx, my) ==
    LET dx == mx - (WIDTH \div 2)
        dy == my - (HEIGHT \div 2)
    IN Atan2Deg(dy, dx)

\* lines 129-131: min(angle_list, key=...) keeps the first of equally near angles
RECURSIVE MinByDistance(_, _, _, _)
MinByDistance(angle_list, angle, i, best) ==
    IF i > Len(angle_list) THEN best
    ELSE MinByDistance(angle_list, angle, i + 1,
                       IF Abs(angle_list[i] - angle) < Abs(best - angle)
                       THEN angle_list[i] ELSE best)

\* mutant of snap_to_nearest_angle: the last of equally near angles wins
RECURSIVE MaxByDistance(_, _, _, _)
MaxByDistance(angle_list, angle, i, best) ==
    IF i > Len(angle_list) THEN best
    ELSE MaxByDistance(angle_list, angle, i + 1,
                       IF Abs(angle_list[i] - angle) <= Abs(best - angle)
                       THEN angle_list[i] ELSE best)

snap_to_last_nearest(angle, angle_list) ==
    MaxByDistance(angle_list, angle, 2, angle_list[1])

snap_to_nearest_angle(angle, angle_list) ==
    MinByDistance(angle_list, angle, 2, angle_list[1])

\* mutant of smooth_approach: half of the step of line 135 is taken
smooth_approach_Slow(current, target, factor) ==
    current + Quot((target - current) * factor, 20)

\* mutant of smooth_approach: the step of line 135 is added on top of a jump
\* to the target
smooth_approach_Overshoot(current, target, factor) ==
    current + Quot((target - current) * (factor + 10), 10)

\* lines 133-135, factor in tenths: current + (target - current) * factor
smooth_approach(current, target, factor) ==
    current + Quot((target - current) * factor, 10)

\* mutant of NormalizeDelta: the raw difference is used as it is
NormalizeDelta_NoWrap(delta_angle) == delta_angle

\* lines 173-177
NormalizeDelta(delta_angle) ==
    IF delta_angle > 180 THEN delta_angle - 360
    ELSE IF delta_angle < -180 THEN delta_angle + 360
    ELSE delta_angle

\* mutant of StepLines: the step is 0.01 per degree of rotation
StepLines_PerDegree(scale, delta_angle) == scale - delta_angle

\* lines 184-187
StepLines(scale, delta_angle) ==
    IF delta_angle < 0 THEN scale + 1
    ELSE IF delta_angle > 0 THEN scale - 1
    ELSE scale

\* mutant of ClampLines: the upper clamp of lines 192-193 is missing
ClampLines_NoUpper(scale) ==
    IF scale < Hundredths(10) THEN Hundredths(10) ELSE scale

\* lines 190-193
ClampLines(scale) ==
    LET low == IF scale < Hundredths(10) THEN Hundredths(10) ELSE scale
    IN IF low > MAX_SCALE THEN MAX_SCALE ELSE low

\* the pointer positions explored, at 0, 45, 180 and -135 degrees from the centre
Directions == {<<1, 0>>, <<1, 1>>, <<-1, 0>>, <<-1, -1>>}

PointerPositions ==
    { <<(WIDTH \div 2) + PointerRadius * d[1], (HEIGHT \div 2) + PointerRadius * d[2]>> :
        d \in Directions }

Buttons == {1, 3}

\* lines 146-154
MouseButtonDown(button, mx, my) ==
    /\ main_pc = "events"
    /\ IF button = 1
       THEN /\ dragging' = TRUE
            /\ old_angle' = get_mouse_angle(mx, my)
            /\ arc_scale_target' = Millionths(12)
            /\ gauge_scale_target' = Millionths(11)
            /\ ms_since_down' = 0
            /\ UNCHANGED <<handle_angle, gauge_angle, lines_scale_factor, fullscreen,
                           moves_left, delta_sum>>
       ELSE UNCHANGED <<pointer_vars, ms_since_down>>
    /\ UNCHANGED <<ingest_vars, render_vars, frame_tables>>

\* mutant of MouseButtonUp: the targets are not reset (lines 160-161 left out)
MouseButtonUp_KeepTargets(button) ==
    /\ main_pc = "events"
    /\ IF button = 1
       THEN /\ dragging' = FALSE
            /\ handle_angle' = snap_to_nearest_angle(handle_angle, SNAP_ANGLES)
            /\ UNCHANGED <<old_angle, gauge_angle, lines_scale_factor, fullscreen,
                           arc_scale_target, gauge_scale_target, moves_left, delta_sum>>
       ELSE UNCHANGED pointer_vars
    /\ UNCHANGED <<ingest_vars, render_vars, ms_since_down, frame_tables>>

\* lines 156-165
MouseButtonUp(button) ==
    /\ main_pc = "events"
    /\ IF button = 1
       THEN /\ dragging' = FALSE
            /\ arc_scale_target' = Millionths(10)
            /\ gauge_scale_target' = Millionths(10)
            /\ handle_angle' = snap_to_nearest_angle(handle_angle, SNAP_ANGLES)
            /\ UNCHANGED <<old_angle, gauge_angle, lines_scale_factor, fullscreen,
                           moves_left, delta_sum>>
       ELSE UNCHANGED pointer_vars
    /\ UNCHANGED <<ingest_vars, render_vars, ms_since_down, frame_tables>>

\* mutant of MouseMotion: the `if dragging` test of line 168 is left out
MouseMotion_NoGuard(mx, my) ==
    /\ main_pc = "events"
    /\ LET new_angle   == get_mouse_angle(mx, my)
           delta_angle == NormalizeDelta(new_angle - old_angle)
       IN /\ moves_left > 0
          /\ moves_left' = moves_left - 1
          /\ handle_angle' = handle_angle + delta_angle
          /\ lines_scale_factor' =
                 ClampLines(StepLines(lines_scale_factor, delta_angle))
          /\ gauge_angle' = gauge_angle + delta_angle * gauge_rot_speed_factor
          /\ old_angle' = new_angle
          /\ delta_sum' = delta_sum + delta_angle
          /\ UNCHANGED <<dragging, arc_scale_target, gauge_scale_target, fullscreen>>
    /\ UNCHANGED <<ingest_vars, render_vars, ms_since_down, frame_tables>>

\* mutant of MouseMotion: the gauge rotation is kept within one turn
MouseMotion_WrapGauge(mx, my) ==
    /\ main_pc = "events"
    /\ IF dragging
       THEN LET new_angle   == get_mouse_angle(mx, my)
                delta_angle == NormalizeDelta(new_angle - old_angle)
            IN /\ moves_left > 0
               /\ moves_left' = moves_left - 1
               /\ handle_angle' = handle_angle + delta_angle
               /\ lines_scale_factor' =
                      ClampLines(StepLines(lines_scale_factor, delta_angle))
               /\ gauge_angle' =
                      (gauge_angle + delta_angle * gauge_rot_speed_factor) % 360
               /\ old_angle' = new_angle
               /\ delta_sum' = delta_sum + delta_angle
               /\ UNCHANGED <<dragging, arc_scale_target, gauge_scale_target, fullscreen>>
       ELSE UNCHANGED pointer_vars
    /\ UNCHANGED <<ingest_vars, render_vars, ms_since_down, frame_tables>>

\* lines 167-198
MouseMotion(mx, my) ==
    /\ main_pc = "events"
    /\ IF dragging
       THEN LET new_angle   == get_mouse_angle(mx, my)
                delta_angle == NormalizeDelta(new_angle - old_angle)
            IN /\ moves_left > 0
               /\ moves_left' = moves_left - 1
               /\ handle_angle' = handle_angle + delta_angle
               /\ lines_scale_factor' =
                      ClampLines(StepLines(lines_scale_factor, delta_angle))
               /\ gauge_angle' = gauge_angle + delta_angle * gauge_rot_speed_factor
               /\ old_angle' = new_angle
               /\ delta_sum' = delta_sum + delta_angle
               /\ UNCHANGED <<dragging, arc_scale_target, gauge_scale_target, fullscreen>>
       ELSE UNCHANGED pointer_vars
    /\ UNCHANGED <<ingest_vars, render_vars, ms_since_down, frame_tables>>

\* mutant of EntryLayers: the `if info["active"]` test of line 210 is left out
EntryLayers_Always(table, p) == table[p].images

\* lines 210-222: the blits of one entry of the overlay loop
EntryLayers(table, p) == IF table[p].active THEN table[p].images ELSE <<>>

RECURSIVE OverlayPass(_, _)
OverlayPass(table, i) ==
    IF i > Len(ParamOrder) THEN <<>>
    ELSE EntryLayers(table, ParamOrder[i]) \o OverlayPass(table, i + 1)

\* lines 225-260: the blits that follow the overlays
FixedLayers ==
    <<"Mask.png", "BoldCircle.png", "ThinCircle.png", "Gauge.png",
      "ThickArc.png", "ThinArc.png", "Handle.png">>

\* line 263: clock.tick(60) returns once the frame has lasted 1000/60 ms or longer
FrameMs == 1000 \div FPS

FrameTimes == {FrameMs, StallMs}

Tick(ms, dt) == IF ms < 0 THEN ms ELSE Min(ms + dt, StallMs)

\* lines 200-205: easing and screen.fill
BeginFrame ==
    /\ main_pc = "events"
    /\ frames_left > 0
    /\ frames_left' = frames_left - 1
    /\ arc_scale_current' = smooth_approach(arc_scale_current, arc_scale_target, 2)
    /\ gauge_scale_current' = smooth_approach(gauge_scale_current, gauge_scale_target, 2)
    /\ drawn' = <<>>
    /\ overlay_idx' = 1
    /\ main_pc' = "overlays"
    /\ frame_tables' = {ActiveSet(param_images)}
    /\ UNCHANGED <<ingest_vars, pointer_vars, ms_since_down>>

\* lines 209-222: one iteration of the overlay loop
DrawOverlay ==
    /\ main_pc = "overlays"
    /\ overlay_idx <= Len(ParamOrder)
    /\ drawn' = drawn \o EntryLayers(param_images, ParamOrder[overlay_idx])
    /\ overlay_idx' = overlay_idx + 1
    /\ UNCHANGED <<ingest_vars, pointer_vars, ms_since_down, arc_scale_current,
                   gauge_scale_current, main_pc, frames_left, frame_tables>>

\* lines 224-263: the remaining blits, flip and tick
FinishFrame(dt) ==
    /\ main_pc = "overlays"
    /\ overlay_idx > Len(ParamOrder)
    /\ drawn' = drawn \o FixedLayers
    /\ ms_since_down' = Tick(ms_since_down, dt)
    /\ main_pc' = "events"
    /\ UNCHANGED <<ingest_vars, pointer_vars, arc_scale_current, gauge_scale_current,
                   overlay_idx, frames_left, frame_tables>>

\* lines 200-263 when no other thread runs during the frame
Frame(dt) ==
    /\ main_pc = "events"
    /\ frames_left > 0
    /\ frames_left' = frames_left - 1
    /\ arc_scale_current' = smooth_approach(arc_scale_current, arc_scale_target, 2)
    /\ gauge_scale_current' = smooth_approach(gauge_scale_current, gauge_scale_target, 2)
    /\ drawn' = OverlayPass(param_images, 1) \o FixedLayers
    /\ overlay_idx' = Len(ParamOrder) + 1
    /\ frame_tables' = {ActiveSet(param_images)}
    /\ ms_since_down' = Tick(ms_since_down, dt)
    /\ UNCHANGED <<ingest_vars, pointer_vars, main_pc>>

IngestStep ==
    \/ Accept
    \/ \E n \in 1..RECV_SIZE : RecvData(n)
    \/ RecvEof
    \/ RecvError

PeerStep ==
    \/ PeerConnect
    \/ PeerConnectBehind
    \/ \E r \in Records : PeerSend(r)
    \/ PeerClose

InitIngest ==
    /\ param_images = InitialParamImages
    /\ srv_pc = "accept"
    /\ connection = "none"
    /\ data = <<>>
    /\ client = "absent"
    /\ wire = <<>>
    /\ peer_closed = FALSE
    /\ sent = <<>>
    /\ waiting = FALSE


\* lines 101-121: the module-level state before the first pass of the main loop
InitMain ==
    /\ arc_scale_current = Millionths(10)
    /\ arc_scale_target = Millionths(10)
    /\ gauge_scale_current = Millionths(10)
    /\ gauge_scale_target = Millionths(10)
    /\ gauge_angle = 0
    /\ handle_angle = 0
    /\ lines_scale_factor = Hundredths(10)
    /\ dragging = FALSE
    /\ old_angle = 0
    /\ fullscreen = FALSE
    /\ ms_since_down = -1
    /\ main_pc = "events"
    /\ overlay_idx = 1
    /\ drawn = <<>>
    /\ frame_tables = {ActiveSet(param_images)}
    /\ moves_left = MaxMoves
    /\ delta_sum = 0
    /\ frames_left = MaxFrames

\* the state after a press, a long clockwise drag and the release have all been
\* handled in the first pass over the event queue: lines_scale_factor is NearMax
\* steps below MAX_SCALE, the handle is snapped, no frame has been drawn yet
InitAfterLongDrag ==
    /\ arc_scale_current = Millionths(10)
    /\ arc_scale_target = Millionths(10)
    /\ gauge_scale_current = Millionths(10)
    /\ gauge_scale_target = Millionths(10)
    /\ gauge_angle = 0
    /\ handle_angle = SNAP_ANGLES[1]
    /\ lines_scale_factor = MAX_SCALE - NearMax
    /\ dragging = FALSE
    /\ old_angle = 0
    /\ fullscreen = FALSE
    /\ ms_since_down = 0
    /\ main_pc = "events"
    /\ overlay_idx = 1
    /\ drawn = <<>>
    /\ frame_tables = {ActiveSet(param_images)}
    /\ moves_left = MaxMoves
    /\ delta_sum = 0
    /\ frames_left = MaxFrames

\* the state once the module body has run, before either loop has taken a step
InitAll == InitIngest /\ InitMain

InitLongDrag == InitIngest /\ (InitMain \/ InitAfterLongDrag)

PointerStep ==
    \/ \E b \in Buttons, pos \in PointerPositions : MouseButtonDown(b, pos[1], pos[2])
    \/ \E b \in Buttons : MouseButtonUp(b)
    \/ \E pos \in PointerPositions : MouseMotion(pos[1], pos[2])

NextPointer == PointerStep \/ \E dt \in FrameTimes : Frame(dt)

\* the main loop alone: pointer events and frames, no message arrives
SpecPointer == InitAll /\ [][NextPointer]_vars

\* the main loop alone, started before or after a long clockwise drag
SpecLongDrag == InitLongDrag /\ [][NextPointer]_vars

NextIngest == IngestStep \/ PeerStep

\* the records the peer sends while frames are drawn
FrameRecords == {notes \o <<" ", "1", "\n">>, beat \o <<" ", "1", ";", "\n">>}

NextFrame ==
    \/ IngestStep
    \/ PeerConnect
    \/ PeerConnectBehind
    \/ \E r \in FrameRecords : PeerSend(r)
    \/ PeerClose
    \/ BeginFrame
    \/ DrawOverlay
    \/ \E dt \in FrameTimes : FinishFrame(dt)

\* the ingest thread running while the main loop draws frames, step by step of
\* the overlay loop; no pointer event arrives
SpecFrame == InitAll /\ [][NextFrame]_vars

\* the ingest thread and its peer alone: the main loop does not run
SpecIngest == InitAll /\ [][NextIngest]_vars

\* the tables the messages of earlier connections can have left behind: every
\* combination of the six flags
FlagTables ==
    {[p \in DOMAIN InitialParamImages |->
         [InitialParamImages[p] EXCEPT !.active = (p \in on)]] :
       on \in SUBSET (DOMAIN InitialParamImages)}

\* the first frame starts after a connection has set some flags and has ended;
\* the log of its records is not kept
InitDraw ==
    /\ param_images \in FlagTables
    /\ srv_pc = "accept"
    /\ connection = "closed"
    /\ data = <<>>
    /\ client = "absent"
    /\ wire = <<>>
    /\ peer_closed = TRUE
    /\ sent = <<>>
    /\ waiting = FALSE
    /\ InitMain

NextDraw ==
    \/ BeginFrame
    \/ DrawOverlay
    \/ \E dt \in FrameTimes : FinishFrame(dt)

\* the compositor alone, blit by blit, under every combination of flags
SpecDraw == InitDraw /\ [][NextDraw]_vars

\* construction, with frames for two spells of button events and, between
\* them, EaseFrames frames without any
InitEase ==
    /\ InitIngest
    /\ arc_scale_current = Millionths(10)
    /\ arc_scale_target = Millionths(10)
    /\ gauge_scale_current = Millionths(10)
    /\ gauge_scale_target = Millionths(10)
    /\ gauge_angle = 0
    /\ handle_angle = 0
    /\ lines_scale_factor = Hundredths(10)
    /\ dragging = FALSE
    /\ old_angle = 0
    /\ fullscreen = FALSE
    /\ ms_since_down = -1
    /\ main_pc = "events"
    /\ overlay_idx = 1
    /\ drawn = <<>>
    /\ frame_tables = {ActiveSet(param_images)}
    /\ moves_left = MaxMoves
    /\ delta_sum = 0
    /\ frames_left = WarmFrames + EaseFrames + WarmFrames

\* button events arrive before the quiet frames and after them, not during them
ButtonsArrive ==
    \/ frames_left >= WarmFrames + EaseFrames
    \/ frames_left < WarmFrames

PressStep ==
    /\ ButtonsArrive
    /\ \E b \in Buttons, pos \in PointerPositions : MouseButtonDown(b, pos[1], pos[2])

ReleaseStep ==
    /\ ButtonsArrive
    /\ \E b \in Buttons : MouseButtonUp(b)

NextEase ==
    \/ PressStep
    \/ ReleaseStep
    \/ \E dt \in FrameTimes : Frame(dt)

\* the main loop over many frames: presses and releases, then EaseFrames frames
\* with the targets left alone, then presses and releases again
SpecEase == InitEase /\ [][NextEase]_vars

ThreadProgress ==
    \/ Accept
    \/ \E n \in 1..RECV_SIZE : RecvData(n)
    \/ RecvEof

\* the thread is scheduled whenever accept or recv can return
FairSpecIngest == InitAll /\ [][NextIngest]_vars /\ WF_vars(ThreadProgress)

(***************************************************************************)
(* Reference reading of a record "<parameterName> <value>" + terminator,   *)
(* used to state the claims about messages.                                *)
(***************************************************************************)
ValueTokens == {<<"1">>, <<"0">>, <<"2">>}
Terminators == {<<>>, <<"\n">>, <<";", "\n">>}
Registered  == {ParamOrder[i] : i \in 1..Len(ParamOrder)}

IsMessage(bytes, p, v) == \E t \in Terminators : bytes = p \o <<" ">> \o v \o t

\* the table with entry p set to "v is textually 1" and every other entry kept
SetEntry(table, p, v) ==
    [k \in DOMAIN table |->
        IF k = p THEN [active |-> (v = <<"1">>), images |-> table[k].images]
        ELSE table[k]]

WellFormed(r) ==
    /\ r # <<>>
    /\ r[Len(r)] = "\n"
    /\ \E p \in Registered \cup {bogus}, v \in ValueTokens : IsMessage(r, p, v)

RecordEffect(table, r) ==
    IF \E p \in Registered, v \in ValueTokens : IsMessage(r, p, v)
    THEN LET pv == CHOOSE pv \in Registered \X ValueTokens : IsMessage(r, pv[1], pv[2])
         IN SetEntry(table, pv[1], pv[2])
    ELSE table

RECURSIVE ApplyRecords(_, _)
ApplyRecords(table, rs) ==
    IF rs = <<>> THEN table
    ELSE ApplyRecords(RecordEffect(table, Head(rs)), Tail(rs))

(***************************************************************************)
(* C1: when the service processes the two-token message "p v" with p       *)
(* registered, entry p becomes active iff v is textually "1", and every    *)
(* other entry keeps its value.                                            *)
(***************************************************************************)
C1_TwoTokenMessage ==
    [][(\E n \in 1..Len(wire) : RecvData(n))
          => \A p \in Registered : \A v \in ValueTokens :
                 IsMessage(data', p, v) => param_images' = SetEntry(param_images, p, v)]_vars

\* "notes 1" has been processed and notes is active; "beat 2" left beat inactive
C1_Witness ==
    /\ data = beat \o <<" ", "2", "\n">>
    /\ param_images[notes].active
    /\ ~param_images[beat].active
    /\ sent[1] = notes \o <<" ", "1", "\n">>

(***************************************************************************)
(* C2: a decoded message with a token count other than 2, or whose name    *)
(* is not registered, leaves the table unchanged and the connection open:  *)
(* the thread is back in recv on the same connection.                      *)
(***************************************************************************)
Dropped(bytes) ==
    /\ ~DecodeFails(bytes)
    /\ \/ Len(Parts(bytes)) # 2
       \/ Parts(bytes)[1] \notin Registered

C2_DroppedMessage ==
    [][((\E n \in 1..Len(wire) : RecvData(n)) /\ Dropped(data'))
              => /\ param_images' = param_images
                 /\ srv_pc' = "recv"
                 /\ connection' = "open"
                 /\ client' = "connected"]_vars

\* "bogus 1" was dropped after "notes 1" was applied, and the thread still reads
C2_Witness ==
    /\ data = bogus \o <<" ", "1", "\n">>
    /\ sent = <<notes \o <<" ", "1", "\n">>, bogus \o <<" ", "1", "\n">> >>
    /\ param_images[notes].active
    /\ srv_pc = "recv"
    /\ connection = "open"

(***************************************************************************)
(* C3: for well-formed newline-terminated records, however the stream is   *)
(* cut into reads, the table after all of them have been read equals the   *)
(* table obtained by applying the records one by one.                      *)
(***************************************************************************)
AllWellFormed(rs) == \A i \in 1..Len(rs) : WellFormed(rs[i])

C3_RecordWise ==
    (srv_pc # "dead" /\ wire = <<>> /\ AllWellFormed(sent))
        => param_images = ApplyRecords(InitialParamImages, sent)

(***************************************************************************)
(* C5: the service never terminates: no read failure and no decoding       *)
(* error takes the thread out of its accept loop.                          *)
(***************************************************************************)
C5_NeverDies == srv_pc # "dead"

(***************************************************************************)
(* C6: once the peer has disconnected (the next recv returns zero bytes)   *)
(* the service eventually has closed the connection and is in accept       *)
(* again, and the zero-length read does not change the table.              *)
(***************************************************************************)
PeerGone == srv_pc = "recv" /\ wire = <<>> /\ peer_closed

Listening == srv_pc = "accept" /\ connection = "closed"

C6_Disconnect ==
    /\ PeerGone ~> Listening
    /\ [][RecvEof => param_images' = param_images]_vars

\* the zero-length read has happened after a record was applied
C6_Witness ==
    /\ Listening
    /\ client = "absent"
    /\ peer_closed
    /\ data = <<>>
    /\ param_images[notes].active

(***************************************************************************)
(* C4: the active flags one frame's overlay pass uses equal the contents   *)
(* of the whole table at one single instant during that frame.             *)
(***************************************************************************)
FlagsUsed ==
    {p \in DOMAIN param_images :
        \E i \in 1..Len(drawn), j \in 1..Len(param_images[p].images) :
            drawn[i] = param_images[p].images[j]}

OverlayPassDone == main_pc = "overlays" /\ overlay_idx > Len(ParamOrder)

C4_ConsistentSnapshot == OverlayPassDone => FlagsUsed \in frame_tables

(***************************************************************************)
(* C7: the normalized delta a MOUSEMOTION adds to handle_angle while       *)
(* dragging lies in (-180, 180]: it is never -180.                         *)
(***************************************************************************)
C7_HalfOpenRange ==
    [][\A pos \in PointerPositions :
          (dragging /\ MouseMotion(pos[1], pos[2]))
              => LET d == handle_angle' - handle_angle
                 IN d > -180 /\ d <= 180]_vars

\* C7 as amended: the delta lies in the closed range [-180, 180], differs from
\* the raw difference of the two pointer angles by -360, 0 or 360, and is -180
\* exactly when the raw difference is -180; raw -350 gives 10 and raw 350 gives -10
C7_ClosedRange ==
    [][\A pos \in PointerPositions :
          (dragging /\ MouseMotion(pos[1], pos[2]))
              => LET d   == handle_angle' - handle_angle
                     raw == old_angle' - old_angle
                 IN /\ d >= -180 /\ d <= 180
                    /\ d - raw \in {-360, 0, 360}
                    /\ (d = -180) <=> (raw = -180)
                    /\ NormalizeDelta(-350) = 10
                    /\ NormalizeDelta(350) = -10]_vars

\* one motion from 180 degrees to 0 degrees has added -180 to the handle angle
C7_Witness ==
    /\ dragging
    /\ moves_left = MaxMoves - 1
    /\ old_angle = 0
    /\ handle_angle = -180
    /\ gauge_angle = -360

(***************************************************************************)
(* C8: in every reachable state lines_scale_factor lies in                 *)
(* [1.0, MAX_SCALE].                                                       *)
(***************************************************************************)
C8_LinesScaleRange ==
    lines_scale_factor >= Hundredths(10) /\ lines_scale_factor <= MAX_SCALE

\* a clockwise motion arrived with lines_scale_factor already at MAX_SCALE
C8_Witness ==
    /\ lines_scale_factor = MAX_SCALE
    /\ moves_left = MaxMoves - (NearMax + 1)
    /\ dragging

(***************************************************************************)
(* C9: a primary-button release sets handle_angle to the member of         *)
(* {90, 180} nearest its value before the release, and to 90 when both     *)
(* are equally near.                                                       *)
(***************************************************************************)
C9_SnapNearest ==
    [][MouseButtonUp(1)
          => /\ handle_angle' \in {90, 180}
             /\ \A a \in {90, 180} :
                    Abs(handle_angle' - handle_angle) <= Abs(a - handle_angle)
             /\ (Abs(90 - handle_angle) = Abs(180 - handle_angle))
                    => handle_angle' = 90
             /\ snap_to_nearest_angle(100, SNAP_ANGLES) = 90
             /\ snap_to_nearest_angle(170, SNAP_ANGLES) = 180]_vars

\* the handle was released at 135 degrees (one motion of +135 from 0) and is at 90
C9_Witness ==
    /\ ~dragging
    /\ moves_left = MaxMoves - 1
    /\ gauge_angle = 270
    /\ handle_angle = 90
    /\ lines_scale_factor = Hundredths(10)

(***************************************************************************)
(* C10: a primary-button press less than 300 ms after the previous one     *)
(* toggles fullscreen, and a press 300 ms or more after it (or the first   *)
(* press) leaves fullscreen unchanged.                                     *)
(***************************************************************************)
C10_DoubleClick ==
    [][\A pos \in PointerPositions :
          MouseButtonDown(1, pos[1], pos[2])
              => ((fullscreen' # fullscreen)
                     <=> (ms_since_down >= 0 /\ ms_since_down < 300))]_vars

(***************************************************************************)
(* C14: one connection at a time.                                          *)
(***************************************************************************)
\* a peer leaves the listen queue and becomes the served connection
PeerAccepted ==
    \/ client = "queued" /\ client' = "connected"
    \/ waiting /\ ~waiting' /\ client' = "connected"

\* the served connection ends and the thread goes back to accept (lines 73-74, 54)
BackToAccept == connection = "open" /\ connection' # "open" /\ srv_pc' = "accept"

\* C14: at most one connection is served at any moment: an accept happens only
\* while no connection is open, the thread never waits in accept with a
\* connection still open, and the thread returns to accept from a connection
\* only at that connection's end of stream (nothing in flight, peer closed).
C14_OneConnection ==
    /\ [](srv_pc = "accept" => connection # "open")
    /\ [][(Accept \/ PeerAccepted) => connection # "open"]_vars
    /\ [][BackToAccept => (wire = <<>> /\ peer_closed)]_vars

\* a second connection is being served after the first one, which had sent
\* records, was read to its end
C14_Witness ==
    /\ srv_pc = "recv"
    /\ connection = "open"
    /\ client = "connected"
    /\ ~peer_closed
    /\ sent # <<>>
    /\ data = <<>>
    /\ wire = <<>>


(***************************************************************************)
(* C20: the key set of the table is fixed.                                 *)
(***************************************************************************)
\* C20: in every reachable state, whatever messages were received (well-formed,
\* malformed or naming an unregistered parameter), the keys of param_images are
\* exactly the six registered names: none is inserted, none is removed.
C20_KeySetFixed == DOMAIN param_images = {notes, beat, drum, drumBeat, ambient, rythmn}

\* an unregistered "bogus 1" and then a one-token "notes" have both been handled
C20_Witness ==
    /\ sent = <<bogus \o <<" ", "1", "\n">>, notes \o <<"\n">> >>
    /\ data = notes \o <<"\n">>
    /\ wire = <<>>
    /\ srv_pc = "recv"

(***************************************************************************)
(* C13: the handle is snapped at drag release only.                        *)
(***************************************************************************)
\* C13: a button release changes handle_angle only when it ends a drag: a
\* release received while dragging is false, including before any press has
\* ever occurred, leaves handle_angle unchanged.
C13_SnapOnlyAtRelease ==
    [][\A button \in Buttons :
          (MouseButtonUp(button) /\ ~dragging) => handle_angle' = handle_angle]_vars

(***************************************************************************)
(* C15: pointer motion while idle.                                         *)
(***************************************************************************)
\* C15: for every pointer position, a motion event received while dragging is
\* false leaves handle_angle, gauge_angle, lines_scale_factor, old_angle, the
\* drag state and both scale targets unchanged.
C15_IdleMoveNoOp ==
    [][\A pos \in PointerPositions :
          (MouseMotion(pos[1], pos[2]) /\ ~dragging)
              => UNCHANGED <<handle_angle, gauge_angle, lines_scale_factor, old_angle,
                             dragging, arc_scale_target, gauge_scale_target>>]_vars

\* idle between two event passes, after a drag that moved the handle was released
C15_Witness ==
    /\ ~dragging
    /\ main_pc = "events"
    /\ moves_left < MaxMoves
    /\ handle_angle \in {SNAP_ANGLES[1], SNAP_ANGLES[2]}
    /\ gauge_angle # 0

(***************************************************************************)
(* C16: the gauge follows the handle at twice the rate, without bound.     *)
(***************************************************************************)
\* the difference of two pointer angles brought back into one turn
IsNormalizedOf(d, raw) == d \in -180..180 /\ (d - raw) \in {-360, 0, 360}

\* C16: every motion event while dragging adds the normalized delta to
\* handle_angle and exactly twice that delta to gauge_angle, unclamped; no other
\* step changes gauge_angle; so gauge_angle is always twice the sum of the
\* deltas applied since start.
C16_GaugeTwiceDelta ==
    /\ [][\A pos \in PointerPositions :
             (MouseMotion(pos[1], pos[2]) /\ dragging)
                 => /\ IsNormalizedOf(handle_angle' - handle_angle,
                                      get_mouse_angle(pos[1], pos[2]) - old_angle)
                    /\ gauge_angle' - gauge_angle = 2 * (handle_angle' - handle_angle)
                    /\ delta_sum' - delta_sum = handle_angle' - handle_angle]_vars
    /\ [][gauge_angle' # gauge_angle
             => dragging /\ \E pos \in PointerPositions : MouseMotion(pos[1], pos[2])]_vars
    /\ [](gauge_angle = 2 * delta_sum)

\* three moves of one drag have taken the pointer once around: the gauge has
\* made two full turns and is still dragging
C16_Witness ==
    /\ dragging
    /\ delta_sum = 360
    /\ gauge_angle = 720
    /\ moves_left = MaxMoves - 3

(***************************************************************************)
(* C17: the lines scale moves by one fixed step per motion event.          *)
(***************************************************************************)
\* one step of 0.01 against the sign of the delta, whatever its size
SignStep(d) == IF d > 0 THEN -1 ELSE IF d < 0 THEN 1 ELSE 0

\* the value brought into [1.0, MAX_SCALE]
Clamped(x) == IF x < Hundredths(10) THEN Hundredths(10)
              ELSE IF x > MAX_SCALE THEN MAX_SCALE ELSE x

\* C17: each motion event while dragging changes lines_scale_factor by one
\* fixed step that depends only on the sign of delta_angle (-0.01 when it is
\* positive, +0.01 when negative, none when zero), then clamps the result to
\* [1.0, MAX_SCALE]; and old_angle becomes the new pointer angle.
C17_LinesStepBySign ==
    [][\A pos \in PointerPositions :
          (MouseMotion(pos[1], pos[2]) /\ dragging)
              => /\ lines_scale_factor' =
                        Clamped(lines_scale_factor + SignStep(delta_sum' - delta_sum))
                 /\ old_angle' = get_mouse_angle(pos[1], pos[2])]_vars

\* one motion event of -135 degrees has raised the scale from 1.0 by one step
C17_Witness ==
    /\ dragging
    /\ delta_sum = -135
    /\ old_angle = -135
    /\ lines_scale_factor = Hundredths(10) + 1
    /\ moves_left = MaxMoves - 1

(***************************************************************************)
(* C18: the scale targets are a function of the drag state.                *)
(***************************************************************************)
\* C18: in every reachable state, while dragging the targets are 1.2 (arcs)
\* and 1.1 (gauge), and while idle both are 1.0; every primary-button press
\* leads to dragging and every primary-button release leads to idle.
C18_TargetsByDragState ==
    /\ [](dragging => (arc_scale_target = Millionths(12)
                          /\ gauge_scale_target = Millionths(11)))
    /\ [](~dragging => (arc_scale_target = Millionths(10)
                           /\ gauge_scale_target = Millionths(10)))
    /\ [][\A pos \in PointerPositions :
             MouseButtonDown(1, pos[1], pos[2]) => dragging']_vars
    /\ [][MouseButtonUp(1) => ~dragging']_vars

\* a second drag has begun after a release snapped the handle, and no motion
\* event has been handled yet
C18_Witness ==
    /\ dragging
    /\ handle_angle = SNAP_ANGLES[1]
    /\ moves_left = MaxMoves
    /\ arc_scale_target = Millionths(12)
    /\ gauge_scale_target = Millionths(11)
    /\ main_pc = "events"

(***************************************************************************)
(* C11: the order of the blits of a frame.                                 *)
(***************************************************************************)
\* the layers drawn above the overlays, in the order the claim gives them
AboveOverlays == <<"Mask.png", "BoldCircle.png", "ThinCircle.png", "Gauge.png",
                   "ThickArc.png", "ThinArc.png", "Handle.png">>

IsAbove(layer) == \E i \in 1..Len(AboveOverlays) : AboveOverlays[i] = layer

\* the registered parameters one of whose images is this layer
LayerOwners(layer) ==
    {p \in DOMAIN param_images :
        \E i \in 1..Len(param_images[p].images) : param_images[p].images[i] = layer}

Occurrences(layer) == Cardinality({i \in 1..Len(drawn) : drawn[i] = layer})

FrameDrawn == main_pc = "events" /\ drawn # <<>>

\* C11: in every frame, under every combination of flags: no overlay layer is
\* drawn after a mask/circle/gauge/arc/handle layer; a layer of an inactive
\* overlay is never drawn; and the finished frame holds every layer of every
\* active overlay once, followed by mask, bold circle, thin circle, gauge,
\* thick arc, thin arc, handle in that order.
C11_DrawOrder ==
    /\ \A i, j \in 1..Len(drawn) : (i < j /\ IsAbove(drawn[i])) => IsAbove(drawn[j])
    /\ \A i \in 1..Len(drawn) :
          ~IsAbove(drawn[i])
              => \E p \in LayerOwners(drawn[i]) : param_images[p].active
    /\ FrameDrawn
          => /\ SelectSeq(drawn, IsAbove) = AboveOverlays
             /\ \A p \in DOMAIN param_images :
                   param_images[p].active
                       => \A i \in 1..Len(param_images[p].images) :
                             Occurrences(param_images[p].images[i]) = 1

\* a frame is finished with notes and rythmn active and beat inactive: two
\* layers of notes, three of rythmn, then the seven fixed layers
C11_Witness ==
    /\ FrameDrawn
    /\ ActiveSet(param_images) = {notes, rythmn}
    /\ Len(drawn) = 2 + 3 + Len(AboveOverlays)
    /\ drawn[Len(drawn)] = "Handle.png"

(***************************************************************************)
(* C12, C19: easing of the arc and gauge scales.                           *)
(***************************************************************************)
\* 0.001 in millionths
Epsilon == Millionths(10) \div 1000

\* the last button event was at least EaseFrames frames ago
QuietFramesDone == frames_left = WarmFrames

\* C12: from any reachable current value, once EaseFrames (30) or more
\* consecutive frames have passed without a press or release, each of the two
\* current scales is less than 0.001 away from its target.
C12_EasingConverges ==
    QuietFramesDone
        => /\ Abs(arc_scale_current - arc_scale_target) < Epsilon
           /\ Abs(gauge_scale_current - gauge_scale_target) < Epsilon

\* the quiet frames followed a press and are over: the arc scale has come up
\* from below to within 0.001 of 1.2 without reaching it
C12_Witness ==
    /\ QuietFramesDone
    /\ dragging
    /\ arc_scale_current < arc_scale_target
    /\ arc_scale_current > arc_scale_target - Epsilon
    /\ gauge_scale_current < gauge_scale_target


\* the value after a frame lies between the value before it and the target
Between(before, after, target) ==
    \/ before <= after /\ after <= target
    \/ target <= after /\ after <= before

\* the smallest distance (in millionths) at which a step of 2 tenths is a whole
\* millionth
Resolution == 10 \div 2

\* one frame's effect on one scale: no crossing, never farther, nearer when the
\* step is representable, and still apart when it was apart
Approaches(before, after, target) ==
    /\ Between(before, after, target)
    /\ Abs(target - before) >= Resolution
           => Abs(target - after) < Abs(target - before)
    /\ before # target => after # target

\* C19: every frame moves each current scale toward its target without
\* crossing it, a current value that differs from its target before a frame
\* still differs after it, and after any sequence of presses, releases and
\* frames the arc scale is within [1.0, 1.2] and the gauge scale within
\* [1.0, 1.1].
C19_NoOvershoot ==
    /\ [][(\E dt \in FrameTimes : Frame(dt))
             => /\ Approaches(arc_scale_current, arc_scale_current', arc_scale_target)
                /\ Approaches(gauge_scale_current, gauge_scale_current',
                              gauge_scale_target)]_vars
    /\ [](arc_scale_current \in Millionths(10)..Millionths(12))
    /\ [](gauge_scale_current \in Millionths(10)..Millionths(11))

\* after the quiet frames of a drag the button was released and one frame has
\* turned the arc scale back from just under 1.2 toward 1.0
C19_Witness ==
    /\ frames_left < WarmFrames
    /\ ~dragging
    /\ arc_scale_current > Millionths(11)
    /\ arc_scale_current < Millionths(12) - Millionths(10) \div 100
    /\ gauge_scale_current > Millionths(10)

=============================================================================
